---- MODULE Spec2Model ----
(***************************************************************************)
(* Model of the FGP GitHub daemon: the GitHubService of src/src/service.rs *)
(* (GraphQL/REST client behind a tokio runtime) and the gh-CLI based       *)
(* GithubService of src/src/main.rs.                                       *)
(*                                                                         *)
(* Strings that the code inspects character by character (repo, state,     *)
(* title, body) are sequences of one-character strings.  Method names,     *)
(* parameter keys and message texts are only compared for equality and     *)
(* are TLA+ strings.                                                       *)
(***************************************************************************)
EXTENDS Integers, Sequences, FiniteSets, TLC

\* inv[t] is the invocation thread t is running: its position pc, the
\* service and operation, the request, the units submitted, the answer its
\* blocking call returned, the result returned and the tracing events
\* emitted; runtime and client_arc are the two fields of GitHubService
VARIABLES inv, runtime, client_arc

vars == <<inv, runtime, client_arc>>

(***************************************************************************)
(* Bounds of the model.                                                    *)
(***************************************************************************)
\* longest repo string enumerated over the alphabet {"a", "/"}
MaxRepoLen == 3
\* longest list a client operation (or a gh run) answers with
MaxItems == 2
\* threads of the transport that call dispatch at the same time
MaxThreads == 2

(***************************************************************************)
(* Option<T> and Result<T, E>.                                             *)
(***************************************************************************)
Some(x) == [some |-> x]

None == [none |-> TRUE]

IsSome(o) == "some" \in DOMAIN o

Ok(v) == [tag |-> "Ok", value |-> v]

Err(e) == [tag |-> "Err", err |-> e]

IsOk(r) == r.tag = "Ok"

IsErr(r) == r.tag = "Err"

(***************************************************************************)
(* serde_json::Value as the handlers see it.  A 64-bit integer v is kept   *)
(* as the pair (hi, lo) with v = hi * 2^32 + lo and lo the low 32 bits     *)
(* read as a signed 32-bit integer, so that no value exceeds the checker's *)
(* integer range.                                                          *)
(***************************************************************************)
JStr(s) == [t |-> "string", s |-> s]

JInt(hi, lo) == [t |-> "int", hi |-> hi, lo |-> lo]

JSmall(n) == JInt(0, n)

JFloat(f) == [t |-> "float", f |-> f]

JArray(items) == [t |-> "array", items |-> items]

JObject(fields) == [t |-> "object", fields |-> fields]

JNull == [t |-> "null"]

\* Value::as_str: Some for a JSON string, None for every other kind
as_str(v) == IF v.t = "string" THEN Some(v.s) ELSE None

\* Value::as_i64: Some for an integer that fits i64, None for a float
as_i64(v) == IF v.t = "int" THEN Some([hi |-> v.hi, lo |-> v.lo]) ELSE None

\* Value::as_u64: Some for a non-negative integer
as_u64(v) ==
  IF v.t = "int" /\ (v.hi > 0 \/ (v.hi = 0 /\ v.lo >= 0))
  THEN Some([hi |-> v.hi, lo |-> v.lo])
  ELSE None

\* `v as i32` altered: a value beyond the range of i32 saturates
as_i32_Saturating(v) ==
  IF v.hi > 0 THEN 2147483647
  ELSE IF v.hi < 0 THEN -2147483647 - 1
  ELSE v.lo

\* `v as i32`: the low 32 bits, two's complement
as_i32(v) == v.lo

\* HashMap::get
Get(bag, key) == IF key \in DOMAIN bag THEN Some(bag[key]) ELSE None

(***************************************************************************)
(* Helpers of GitHubService (service.rs).                                  *)
(***************************************************************************)
get_str(bag, key) ==
  LET v == Get(bag, key)
  IN IF IsSome(v) THEN as_str(v.some) ELSE None

\* get_i32 altered: an absent or non-integer value yields 0, not the default
get_i32_NoDefault(bag, key, default) ==
  LET v == Get(bag, key)
      n == IF IsSome(v) THEN as_i64(v.some) ELSE None
  IN IF IsSome(n) THEN as_i32(n.some) ELSE 0

get_i32(bag, key, default) ==
  LET v == Get(bag, key)
      n == IF IsSome(v) THEN as_i64(v.some) ELSE None
  IN IF IsSome(n) THEN as_i32(n.some) ELSE default

\* str::split('/'): the segments between the separators, empty ones kept
RECURSIVE SplitFrom(_, _, _, _)
SplitFrom(s, i, cur, acc) ==
  IF i > Len(s) THEN Append(acc, cur)
  ELSE IF s[i] = "/" THEN SplitFrom(s, i + 1, <<>>, Append(acc, cur))
  ELSE SplitFrom(s, i + 1, Append(cur, s[i]), acc)

Split(s) == SplitFrom(s, 1, <<>>, <<>>)

\* anyhow errors raised by the service itself: a message and its argument
MissingParam(f) == [msg |-> "Missing required parameter: ", field |-> f]

InvalidRepo(s) ==
  [msg |-> "Invalid repo format. Expected 'owner/repo', got: ", got |-> s]

UnknownMethod(m) == [msg |-> "Unknown method: ", method |-> m]

parse_repo(repo_str) ==
  LET parts == Split(repo_str)
  IN IF Len(parts) # 2
     THEN Err(InvalidRepo(repo_str))
     ELSE Ok([owner |-> parts[1], repo |-> parts[2]])

(***************************************************************************)
(* The API client (crate::api::GitHubClient).  A client is a function from *)
(* operation name to the answer that operation gives.                      *)
(***************************************************************************)
ClientOps ==
  {"ping", "get_user", "list_repos", "list_issues", "list_prs", "get_pr",
   "get_notifications", "create_issue"}

Causes == {"network", "auth", "not_found", "malformed"}

ClientError(c) ==
  [cause |-> c,
   msg |-> CASE c = "network" -> "error sending request"
             [] c = "auth" -> "401 Bad credentials"
             [] c = "not_found" -> "404 Not Found"
             [] OTHER -> "error decoding response body"]

ClientErrors == {ClientError(c) : c \in Causes}

ItemLists == {[i \in 1..n |-> [id |-> i]] : n \in 0..MaxItems}

NotificationLists ==
  UNION {[1..n -> [unread : BOOLEAN]] : n \in 0..MaxItems}

TheUser == [login |-> "octocat", name |-> "The Octocat"]

ThePr == [number |-> 42, title |-> "a pull request"]

TheIssue == [number |-> 7, title |-> "an issue"]

Values(o) ==
  CASE o = "ping" -> BOOLEAN
    [] o = "get_user" -> {TheUser}
    [] o \in {"list_repos", "list_issues", "list_prs"} -> ItemLists
    [] o = "get_pr" -> {ThePr}
    [] o = "get_notifications" -> NotificationLists
    [] OTHER -> {TheIssue}

Answers(o) == {Ok(v) : v \in Values(o)} \cup {Err(e) : e \in ClientErrors}

DefaultAnswer(o) == Ok(CHOOSE v \in Values(o) : TRUE)

FakeClient(o, a) ==
  [x \in ClientOps |-> IF x = o THEN a ELSE DefaultAnswer(x)]

(***************************************************************************)
(* Outcome of a handler: the units it submitted to the runtime, in order,  *)
(* and what it returned.                                                   *)
(***************************************************************************)
Call(o, args) == [op |-> o, args |-> args]

Outcome(cs, r) == [calls |-> cs, result |-> r]

Version == "0.1.0"

\* the string literals "open", "closed" and "all"
Open == <<"o", "p", "e", "n">>

Closed == <<"c", "l", "o", "s", "e", "d">>

All == <<"a", "l", "l">>

(***************************************************************************)
(* Method implementations of GitHubService (service.rs).                   *)
(***************************************************************************)
health(client) ==
  LET ok == client["ping"]
      cs == <<Call("ping", [none |-> TRUE])>>
  IN IF IsErr(ok) THEN Outcome(cs, Err(ok.err))
     ELSE Outcome(cs,
            Ok([status |-> IF ok.value THEN "healthy" ELSE "unhealthy",
                api_connected |-> ok.value,
                version |-> Version]))

get_user(client) ==
  LET user == client["get_user"]
      cs == <<Call("get_user", [none |-> TRUE])>>
  IN IF IsErr(user) THEN Outcome(cs, Err(user.err))
     ELSE Outcome(cs, Ok(user.value))

list_repos(bag, client) ==
  LET limit == get_i32(bag, "limit", 10)
      repos == client["list_repos"]
      cs == <<Call("list_repos", [limit |-> limit])>>
  IN IF IsErr(repos) THEN Outcome(cs, Err(repos.err))
     ELSE Outcome(cs, Ok([repos |-> JArray(repos.value),
                         count |-> Len(repos.value)]))

\* list_issues altered: a failed unit is submitted once more
list_issues_Retry(bag, client) ==
  LET repo_str == get_str(bag, "repo")
  IN IF ~IsSome(repo_str) THEN Outcome(<<>>, Err(MissingParam("repo")))
     ELSE
       LET parsed == parse_repo(repo_str.some)
       IN IF IsErr(parsed) THEN Outcome(<<>>, Err(parsed.err))
          ELSE
            LET s == get_str(bag, "state")
                state == IF IsSome(s) THEN s.some ELSE Open
                limit == get_i32(bag, "limit", 10)
                issues == client["list_issues"]
                cs == <<Call("list_issues",
                             [owner |-> parsed.value.owner,
                              repo |-> parsed.value.repo,
                              state |-> state, limit |-> limit])>>
            IN IF IsErr(issues) THEN Outcome(cs \o cs, Err(issues.err))
               ELSE Outcome(cs,
                      Ok([repo |-> repo_str.some, state |-> state,
                          issues |-> JArray(issues.value),
                          count |-> Len(issues.value)]))

list_issues(bag, client) ==
  LET repo_str == get_str(bag, "repo")
  IN IF ~IsSome(repo_str) THEN Outcome(<<>>, Err(MissingParam("repo")))
     ELSE
       LET parsed == parse_repo(repo_str.some)
       IN IF IsErr(parsed) THEN Outcome(<<>>, Err(parsed.err))
          ELSE
            LET s == get_str(bag, "state")
                state == IF IsSome(s) THEN s.some ELSE Open
                limit == get_i32(bag, "limit", 10)
                issues == client["list_issues"]
                cs == <<Call("list_issues",
                             [owner |-> parsed.value.owner,
                              repo |-> parsed.value.repo,
                              state |-> state, limit |-> limit])>>
            IN IF IsErr(issues) THEN Outcome(cs, Err(issues.err))
               ELSE Outcome(cs,
                      Ok([repo |-> repo_str.some, state |-> state,
                          issues |-> JArray(issues.value),
                          count |-> Len(issues.value)]))

list_prs(bag, client) ==
  LET repo_str == get_str(bag, "repo")
  IN IF ~IsSome(repo_str) THEN Outcome(<<>>, Err(MissingParam("repo")))
     ELSE
       LET parsed == parse_repo(repo_str.some)
       IN IF IsErr(parsed) THEN Outcome(<<>>, Err(parsed.err))
          ELSE
            LET s == get_str(bag, "state")
                state == IF IsSome(s) THEN s.some ELSE Open
                limit == get_i32(bag, "limit", 10)
                prs == client["list_prs"]
                cs == <<Call("list_prs",
                             [owner |-> parsed.value.owner,
                              repo |-> parsed.value.repo,
                              state |-> state, limit |-> limit])>>
            IN IF IsErr(prs) THEN Outcome(cs, Err(prs.err))
               ELSE Outcome(cs,
                      Ok([repo |-> repo_str.some, state |-> state,
                          prs |-> JArray(prs.value),
                          count |-> Len(prs.value)]))

get_pr(bag, client) ==
  LET repo_str == get_str(bag, "repo")
  IN IF ~IsSome(repo_str) THEN Outcome(<<>>, Err(MissingParam("repo")))
     ELSE
       LET parsed == parse_repo(repo_str.some)
       IN IF IsErr(parsed) THEN Outcome(<<>>, Err(parsed.err))
          ELSE
            LET number == get_i32(bag, "number", 0)
            IN IF number = 0
               THEN Outcome(<<>>, Err(MissingParam("number")))
               ELSE
                 LET pr == client["get_pr"]
                     cs == <<Call("get_pr",
                                  [owner |-> parsed.value.owner,
                                   repo |-> parsed.value.repo,
                                   number |-> number])>>
                 IN IF IsErr(pr) THEN Outcome(cs, Err(pr.err))
                    ELSE Outcome(cs, Ok(pr.value))

\* CountUnread altered: every notification is counted, read or not
CountUnread_All(ns) == Len(ns)

\* notifications.iter().filter(|n| n.unread).count()
CountUnread(ns) == Cardinality({i \in 1..Len(ns) : ns[i].unread})

get_notifications(bag, client) ==
  LET notifications == client["get_notifications"]
      cs == <<Call("get_notifications", [none |-> TRUE])>>
  IN IF IsErr(notifications) THEN Outcome(cs, Err(notifications.err))
     ELSE Outcome(cs,
            Ok([notifications |-> JArray(notifications.value),
                unread_count |-> CountUnread(notifications.value)]))

create_issue(bag, client) ==
  LET repo_str == get_str(bag, "repo")
  IN IF ~IsSome(repo_str) THEN Outcome(<<>>, Err(MissingParam("repo")))
     ELSE
       LET parsed == parse_repo(repo_str.some)
       IN IF IsErr(parsed) THEN Outcome(<<>>, Err(parsed.err))
          ELSE
            LET title == get_str(bag, "title")
            IN IF ~IsSome(title)
               THEN Outcome(<<>>, Err(MissingParam("title")))
               ELSE
                 LET body == get_str(bag, "body")
                     issue == client["create_issue"]
                     cs == <<Call("create_issue",
                                  [owner |-> parsed.value.owner,
                                   repo |-> parsed.value.repo,
                                   title |-> title.some, body |-> body])>>
                 IN IF IsErr(issue) THEN Outcome(cs, Err(issue.err))
                    ELSE Outcome(cs,
                           Ok([created |-> TRUE, issue |-> issue.value]))

(***************************************************************************)
(* FgpService for GitHubService (service.rs).                              *)
(***************************************************************************)
\* dispatch altered: the alias "github.prs" is left out of its arm
dispatch_NoPrsAlias(m, bag, client) ==
  CASE m = "health" -> health(client)
    [] m \in {"user", "github.user"} -> get_user(client)
    [] m \in {"repos", "github.repos"} -> list_repos(bag, client)
    [] m \in {"issues", "github.issues"} -> list_issues(bag, client)
    [] m \in {"prs"} -> list_prs(bag, client)
    [] m \in {"pr", "github.pr"} -> get_pr(bag, client)
    [] m \in {"notifications", "github.notifications"} ->
         get_notifications(bag, client)
    [] m \in {"create_issue", "github.create_issue"} ->
         create_issue(bag, client)
    [] OTHER -> Outcome(<<>>, Err(UnknownMethod(m)))

\* dispatch altered: health is given a namespaced alias like the others
dispatch_HealthAlias(m, bag, client) ==
  CASE m \in {"health", "github.health"} -> health(client)
    [] m \in {"user", "github.user"} -> get_user(client)
    [] m \in {"repos", "github.repos"} -> list_repos(bag, client)
    [] m \in {"issues", "github.issues"} -> list_issues(bag, client)
    [] m \in {"prs", "github.prs"} -> list_prs(bag, client)
    [] m \in {"pr", "github.pr"} -> get_pr(bag, client)
    [] m \in {"notifications", "github.notifications"} ->
         get_notifications(bag, client)
    [] m \in {"create_issue", "github.create_issue"} ->
         create_issue(bag, client)
    [] OTHER -> Outcome(<<>>, Err(UnknownMethod(m)))

dispatch(m, bag, client) ==
  CASE m = "health" -> health(client)
    [] m \in {"user", "github.user"} -> get_user(client)
    [] m \in {"repos", "github.repos"} -> list_repos(bag, client)
    [] m \in {"issues", "github.issues"} -> list_issues(bag, client)
    [] m \in {"prs", "github.prs"} -> list_prs(bag, client)
    [] m \in {"pr", "github.pr"} -> get_pr(bag, client)
    [] m \in {"notifications", "github.notifications"} ->
         get_notifications(bag, client)
    [] m \in {"create_issue", "github.create_issue"} ->
         create_issue(bag, client)
    [] OTHER -> Outcome(<<>>, Err(UnknownMethod(m)))

\* SchemaBuilder nodes of the input schemas
RepoNode ==
  [type |-> "string", pattern |-> Some("^[a-zA-Z0-9_.-]+/[a-zA-Z0-9_.-]+$")]

StateNode ==
  [type |-> "string", enum |-> Some({Open, Closed, All}),
   default |-> Some(JStr(Open))]

LimitNode ==
  [type |-> "integer", minimum |-> Some(1), maximum |-> Some(100),
   default |-> Some(JSmall(10))]

NumberNode == [type |-> "integer", minimum |-> Some(1), maximum |-> None]

TitleNode ==
  [type |-> "string", min_length |-> Some(1), max_length |-> Some(256)]

BodyNode == [type |-> "string"]

NoProperties == [x \in {} |-> BodyNode]

MethodInfo(name, properties, required, examples) ==
  [name |-> name, properties |-> properties, required |-> required,
   examples |-> examples]

\* the string literals of the example inputs
ExampleRepo ==
  <<"f", "a", "s", "t", "-", "g", "a", "t", "e", "w", "a", "y", "-", "p",
    "r", "o", "t", "o", "c", "o", "l", "/", "d", "a", "e", "m", "o", "n">>

ExampleTitle ==
  <<"B", "u", "g", ":", " ", "S", "o", "c", "k", "e", "t", " ", "t", "i",
    "m", "e", "o", "u", "t", " ", "a", "f", "t", "e", "r", " ", "3", "0",
    "s">>

ExampleBody ==
  <<"#", "#", " ", "D", "e", "s", "c", "r", "i", "p", "t", "i", "o", "n",
    "\n", "T", "h", "e", " ", "s", "o", "c", "k", "e", "t", " ", "t", "i",
    "m", "e", "s", " ", "o", "u", "t", " ", "u", "n", "e", "x", "p", "e",
    "c", "t", "e", "d", "l", "y", ".", ".", ".">>

\* json!({})
EmptyExample == [x \in {} |-> JNull]

\* method_list altered: the example of github.repos asks for 500 repos
method_list_BadExample ==
  <<MethodInfo("github.user", NoProperties, {}, <<EmptyExample>>),
    MethodInfo("github.repos", [limit |-> LimitNode], {},
               <<[limit |-> JSmall(500)]>>),
    MethodInfo("github.issues",
               [repo |-> RepoNode, state |-> StateNode, limit |-> LimitNode],
               {"repo"},
               <<[repo |-> JStr(ExampleRepo)],
                 [repo |-> JStr(ExampleRepo), state |-> JStr(Closed),
                  limit |-> JSmall(5)]>>),
    MethodInfo("github.prs",
               [repo |-> RepoNode, state |-> StateNode, limit |-> LimitNode],
               {"repo"},
               <<[repo |-> JStr(ExampleRepo)]>>),
    MethodInfo("github.pr", [repo |-> RepoNode, number |-> NumberNode],
               {"repo", "number"},
               <<[repo |-> JStr(ExampleRepo), number |-> JSmall(42)]>>),
    MethodInfo("github.notifications", NoProperties, {}, <<EmptyExample>>),
    MethodInfo("github.create_issue",
               [repo |-> RepoNode, title |-> TitleNode, body |-> BodyNode],
               {"repo", "title"},
               <<[repo |-> JStr(ExampleRepo), title |-> JStr(ExampleTitle),
                  body |-> JStr(ExampleBody)]>>)>>

\* the descriptors method_list returns, in order, with their input schemas
\* and example inputs
method_list ==
  <<MethodInfo("github.user", NoProperties, {}, <<EmptyExample>>),
    MethodInfo("github.repos", [limit |-> LimitNode], {},
               <<[limit |-> JSmall(5)]>>),
    MethodInfo("github.issues",
               [repo |-> RepoNode, state |-> StateNode, limit |-> LimitNode],
               {"repo"},
               <<[repo |-> JStr(ExampleRepo)],
                 [repo |-> JStr(ExampleRepo), state |-> JStr(Closed),
                  limit |-> JSmall(5)]>>),
    MethodInfo("github.prs",
               [repo |-> RepoNode, state |-> StateNode, limit |-> LimitNode],
               {"repo"},
               <<[repo |-> JStr(ExampleRepo)]>>),
    MethodInfo("github.pr", [repo |-> RepoNode, number |-> NumberNode],
               {"repo", "number"},
               <<[repo |-> JStr(ExampleRepo), number |-> JSmall(42)]>>),
    MethodInfo("github.notifications", NoProperties, {}, <<EmptyExample>>),
    MethodInfo("github.create_issue",
               [repo |-> RepoNode, title |-> TitleNode, body |-> BodyNode],
               {"repo", "title"},
               <<[repo |-> JStr(ExampleRepo), title |-> JStr(ExampleTitle),
                  body |-> JStr(ExampleBody)]>>)>>

\* HealthStatus
\* healthy_with_latency: the elapsed time is whatever was measured
Healthy == [healthy |-> TRUE, latency |-> "elapsed"]

Unhealthy(reason) == [healthy |-> FALSE, reason |-> reason]

\* health_check altered: an empty viewer login is reported healthy
health_check_EmptyHealthy(client) ==
  LET r == client["ping"]
      cs == <<Call("ping", [none |-> TRUE])>>
  IN Outcome(cs,
       [github_api |-> IF IsErr(r) THEN Unhealthy(r.err.msg) ELSE Healthy])

health_check(client) ==
  LET r == client["ping"]
      cs == <<Call("ping", [none |-> TRUE])>>
  IN Outcome(cs,
       [github_api |->
          IF IsErr(r) THEN Unhealthy(r.err.msg)
          ELSE IF r.value THEN Healthy
          ELSE Unhealthy("Empty viewer login")])

\* on_start altered: an empty viewer login fails the start
on_start_FailOnEmpty(client) ==
  LET r == client["ping"]
      cs == <<Call("ping", [none |-> TRUE])>>
  IN IF IsErr(r) THEN Outcome(cs, Err(r.err))
     ELSE IF r.value THEN Outcome(cs, Ok([unit |-> TRUE]))
     ELSE Outcome(cs, Err([msg |-> "Empty viewer login"]))

on_start(client) ==
  LET r == client["ping"]
      cs == <<Call("ping", [none |-> TRUE])>>
  IN IF IsErr(r) THEN Outcome(cs, Err(r.err))
     ELSE Outcome(cs, Ok([unit |-> TRUE]))

\* the levels of the tracing events on_start emits, in order
on_start_log(client) ==
  LET r == client["ping"]
  IN <<"info">>
       \o (IF IsErr(r) THEN <<"error">>
           ELSE IF r.value THEN <<"info">>
           ELSE <<"warn">>)

(***************************************************************************)
(* The gh command line tool as main.rs runs it: Command::output() either   *)
(* fails to spawn or yields an exit status, stdout and stderr.  stdout is  *)
(* a sequence of lines; stderr is a sequence of text fragments.  A line of *)
(* stdout is empty or JSON whitespace (Blank), whitespace that JSON does   *)
(* not allow, such as a form feed (FormFeed), one whole JSON value         *)
(* (JsonLine), the i-th of the n lines of a JSON value printed over        *)
(* several lines, not JSON by itself (Part), or other text (Garbage).      *)
(***************************************************************************)
SpawnFailed == [spawned |-> FALSE, io |-> "No such file or directory"]

Exited(success, out, errtext) ==
  [spawned |-> TRUE, success |-> success, stdout |-> out, stderr |-> errtext]

Blank == [line |-> "blank"]

FormFeed == [line |-> "formfeed"]

Garbage == [line |-> "garbage"]

Part(v, i, n) == [line |-> "part", v |-> v, i |-> i, n |-> n]

\* the lines of the value v printed over n lines
Pretty(v, n) == [i \in 1..n |-> Part(v, i, n)]

JsonLine(v) == [line |-> "json", v |-> v]

GhUser ==
  JObject([login |-> JStr(<<"o", "c", "t", "o">>), name |-> JNull,
           followers |-> JSmall(3)])

GhStatus(branch) == JObject([currentBranch |-> branch])

GhJson ==
  {JArray(l) : l \in ItemLists}
    \cup {GhUser, GhStatus(JNull), GhStatus(JObject([number |-> JSmall(42)]))}

Stdouts ==
  {<<>>, <<Garbage>>, <<Blank>>}
    \cup {<<JsonLine(v)>> : v \in GhJson}
    \cup {<<JsonLine(GhUser), Blank, JsonLine(GhUser)>>,
          <<JsonLine(GhUser), Garbage>>,
          <<JsonLine(GhUser), FormFeed>>,
          <<Blank, JsonLine(GhUser), Blank>>,
          Pretty(JArray(<<>>), 2),
          Pretty(GhUser, 5),
          Pretty(GhStatus(JNull), 3) \o <<Blank>>,
          SubSeq(Pretty(GhUser, 5), 1, 4),
          Pretty(GhUser, 5) \o <<JsonLine(GhUser)>>}

Stderrs ==
  {<<"fatal: ", "not a git repository", " (or any of the parent directories)">>,
   <<"no current pull request">>,
   <<"HTTP 401: ", "Bad credentials">>}

GhOutcomes ==
  {SpawnFailed}
    \cup {Exited(FALSE, <<>>, e) : e \in Stderrs}
    \cup {Exited(TRUE, o, <<>>) : o \in Stdouts}

\* str::contains on the fragments of a text
Contains(text, frag) == \E i \in 1..Len(text) : text[i] = frag

\* the lines of stdout that hold more than JSON whitespace
RECURSIVE Tokens(_)
Tokens(out) ==
  IF out = <<>> THEN <<>>
  ELSE IF Head(out).line = "blank" THEN Tokens(Tail(out))
  ELSE <<Head(out)>> \o Tokens(Tail(out))

\* the lines are all the lines of one JSON value, in order
WholeValue(ls) ==
  \/ Len(ls) = 1 /\ ls[1].line = "json"
  \/ /\ ls # <<>>
     /\ \A i \in 1..Len(ls) :
          /\ ls[i].line = "part"
          /\ ls[i] = Part(ls[1].v, i, Len(ls))

\* serde_json::from_slice on the whole of stdout: exactly one JSON value,
\* on one line or on several, with nothing but JSON whitespace around it
from_slice(out) ==
  LET ls == Tokens(out)
  IN IF WholeValue(ls) THEN Ok(ls[1].v)
     ELSE Err([msg |-> "Failed to parse gh output"])

\* lines().filter(|l| !l.trim().is_empty())
\*        .filter_map(|l| serde_json::from_str(l).ok()).collect():
\* each line is parsed by itself, and a line that is no JSON value is left
\* out
RECURSIVE ParseLines(_)
ParseLines(out) ==
  IF out = <<>> THEN <<>>
  ELSE IF Head(out).line = "json"
       THEN <<Head(out).v>> \o ParseLines(Tail(out))
       ELSE ParseLines(Tail(out))

\* Value::as_array().map(|a| a.len()).unwrap_or(0)
ArrayLen(v) == IF v.t = "array" THEN Len(v.items) ELSE 0

\* Value indexing by key: Null unless an object that has the key
Index(v, key) ==
  IF v.t = "object" /\ key \in DOMAIN v.fields THEN v.fields[key] ELSE JNull

\* u64::to_string
to_string(n) == [decimal |-> n]

\* the error context(..) attaches when gh cannot be run
FailedToRun(what, gh) == [msg |-> what, source |-> gh.io]

\* bail!("gh ... failed: {}", stderr)
GhFailed(what, gh) == [msg |-> what, stderr |-> gh.stderr]

U64Ten == [hi |-> 0, lo |-> 10]

(***************************************************************************)
(* Method implementations of the CLI GithubService (main.rs).              *)
(***************************************************************************)
cli_list_repos(bag, gh) ==
  LET v == Get(bag, "limit")
      n == IF IsSome(v) THEN as_u64(v.some) ELSE None
      limit == IF IsSome(n) THEN n.some ELSE U64Ten
      cs == <<Call("gh", [cmd |-> <<"repo", "list">>,
                          limit |-> to_string(limit)])>>
  IN IF ~gh.spawned
     THEN Outcome(cs, Err(FailedToRun("Failed to run gh repo list", gh)))
     ELSE IF ~gh.success
     THEN Outcome(cs, Err(GhFailed("gh repo list failed: ", gh)))
     ELSE
       LET repos == from_slice(gh.stdout)
       IN IF IsErr(repos) THEN Outcome(cs, Err(repos.err))
          ELSE Outcome(cs, Ok([repos |-> repos.value,
                               count |-> ArrayLen(repos.value)]))

cli_list_issues(bag, gh) ==
  LET repo == get_str(bag, "repo")
  IN IF ~IsSome(repo)
     THEN Outcome(<<>>, Err([msg |-> "repo parameter is required"]))
     ELSE
       LET s == get_str(bag, "state")
           state == IF IsSome(s) THEN s.some ELSE Open
           v == Get(bag, "limit")
           n == IF IsSome(v) THEN as_u64(v.some) ELSE None
           limit == IF IsSome(n) THEN n.some ELSE U64Ten
           cs == <<Call("gh", [cmd |-> <<"issue", "list">>,
                               repo |-> repo.some, state |-> state,
                               limit |-> to_string(limit)])>>
       IN IF ~gh.spawned
          THEN Outcome(cs, Err(FailedToRun("Failed to run gh issue list", gh)))
          ELSE IF ~gh.success
          THEN Outcome(cs, Err(GhFailed("gh issue list failed: ", gh)))
          ELSE
            LET issues == from_slice(gh.stdout)
            IN IF IsErr(issues) THEN Outcome(cs, Err(issues.err))
               ELSE Outcome(cs, Ok([repo |-> repo.some, state |-> state,
                                    issues |-> issues.value,
                                    count |-> ArrayLen(issues.value)]))

cli_get_notifications(bag, gh) ==
  LET cs == <<Call("gh", [cmd |-> <<"api", "/notifications">>])>>
  IN IF ~gh.spawned
     THEN Outcome(cs, Err(FailedToRun("Failed to run gh api", gh)))
     ELSE IF ~gh.success
     THEN Outcome(cs, Err(GhFailed("gh api failed: ", gh)))
     ELSE
       LET notifications == ParseLines(gh.stdout)
       IN Outcome(cs, Ok([notifications |-> JArray(notifications),
                          unread_count |-> Len(notifications)]))

pr_status(bag, gh) ==
  LET r == get_str(bag, "repo")
      cs == <<Call("gh", [cmd |-> <<"pr", "status">>, repo |-> r])>>
  IN IF ~gh.spawned
     THEN Outcome(cs, Err(FailedToRun("Failed to run gh pr status", gh)))
     ELSE IF ~gh.success
     THEN IF Contains(gh.stderr, "not a git repository")
          THEN Outcome(cs, Ok([error |-> "Not in a git repository",
                               has_pr |-> FALSE]))
          ELSE Outcome(cs, Err(GhFailed("gh pr status failed: ", gh)))
     ELSE
       LET status == from_slice(gh.stdout)
       IN IF IsErr(status) THEN Outcome(cs, Err(status.err))
          ELSE Outcome(cs, Ok(status.value))

cli_get_user(gh) ==
  LET cs == <<Call("gh", [cmd |-> <<"api", "/user">>])>>
  IN IF ~gh.spawned
     THEN Outcome(cs, Err(FailedToRun("Failed to run gh api /user", gh)))
     ELSE IF ~gh.success
     THEN Outcome(cs, Err(GhFailed("gh api failed: ", gh)))
     ELSE
       LET user == from_slice(gh.stdout)
       IN IF IsErr(user) THEN Outcome(cs, Err(user.err))
          ELSE Outcome(cs,
                 Ok([login |-> Index(user.value, "login"),
                     name |-> Index(user.value, "name"),
                     email |-> Index(user.value, "email"),
                     avatar_url |-> Index(user.value, "avatar_url"),
                     public_repos |-> Index(user.value, "public_repos"),
                     followers |-> Index(user.value, "followers"),
                     following |-> Index(user.value, "following")]))

cli_dispatch(m, bag, gh) ==
  CASE m = "repos" -> cli_list_repos(bag, gh)
    [] m = "issues" -> cli_list_issues(bag, gh)
    [] m = "notifications" -> cli_get_notifications(bag, gh)
    [] m = "pr_status" -> pr_status(bag, gh)
    [] m = "user" -> cli_get_user(gh)
    [] OTHER -> Outcome(<<>>, Err(UnknownMethod(m)))

cli_on_start(gh) ==
  LET cs == <<Call("gh", [cmd |-> <<"auth", "status">>])>>
  IN IF ~gh.spawned
     THEN Outcome(cs, Err(FailedToRun(
                            "Failed to run gh CLI - is it installed?", gh)))
     ELSE IF ~gh.success
     THEN Outcome(cs, Err(GhFailed(
            "gh CLI not authenticated. Run 'gh auth login' first.\n", gh)))
     ELSE Outcome(cs, Ok([unit |-> TRUE]))

\* the levels of the tracing events the CLI on_start emits
cli_on_start_log(gh) ==
  IF gh.spawned /\ gh.success THEN <<"info">> ELSE <<>>

\* the names of the descriptors the CLI service's method_list returns
cli_method_list == <<"repos", "issues", "notifications", "pr_status", "user">>

(***************************************************************************)
(* Requests the transport may deliver.                                     *)
(***************************************************************************)
RepoStrings ==
  UNION {[1..n -> {"a", "/"}] : n \in 0..MaxRepoLen}
    \cup {<<"a", "/", "a", "/", "a">>, <<"a", "a", "/", "a", "a">>}

Absent == [t |-> "absent"]

RepoVals == {Absent, JSmall(5)} \cup {JStr(r) : r \in RepoStrings}

StateVals ==
  {Absent, JStr(Open), JStr(Closed), JStr(All), JStr(<<"x">>), JSmall(1)}

LimitVals ==
  {Absent, JSmall(-1), JSmall(0), JSmall(1), JSmall(5), JSmall(10),
   JSmall(100), JSmall(101), JInt(1, 0), JInt(1, 7), JFloat("2.5"),
   JStr(<<"5">>)}

NumberVals ==
  {Absent, JSmall(-1), JSmall(0), JSmall(1), JSmall(42), JInt(1, 0),
   JInt(2, 0), JInt(1, -1), JInt(-1, 5), JFloat("1.5"), JStr(<<"4", "2">>)}

TitleVals == {Absent, JStr(<<>>), JStr(<<"t">>), JSmall(1)}

BodyVals == {Absent, JStr(<<"b">>), JSmall(1)}

\* the bag that holds the keys of f that are not Absent
MkBag(f) == [k \in {x \in DOMAIN f : f[x] # Absent} |-> f[k]]

EmptyBag == MkBag([limit |-> Absent])

BareNames ==
  {"health", "user", "repos", "issues", "prs", "pr", "notifications",
   "create_issue", "pr_status"}

Namespaced(x) == "github." \o x

MethodNames ==
  BareNames \cup {Namespaced(x) : x \in BareNames} \cup {"", "bogus"}

\* the bare name a method name stands for
Bare(m) ==
  IF \E x \in BareNames : m = Namespaced(x)
  THEN CHOOSE x \in BareNames : m = Namespaced(x)
  ELSE m

\* the bags delivered with a method name: every combination of values
\* for the keys some handler of that name reads
Bags(m) ==
  LET b == Bare(m)
  IN CASE b = "repos" -> {MkBag([limit |-> l]) : l \in LimitVals}
       [] b \in {"issues", "prs"} ->
            {MkBag([repo |-> r, state |-> s, limit |-> l]) :
               r \in RepoVals, s \in StateVals, l \in LimitVals}
       [] b = "pr" ->
            {MkBag([repo |-> r, number |-> n]) :
               r \in RepoVals, n \in NumberVals}
       [] b = "create_issue" ->
            {MkBag([repo |-> r, title |-> t, body |-> d]) :
               r \in RepoVals, t \in TitleVals, d \in BodyVals}
       [] b = "pr_status" -> {MkBag([repo |-> r]) : r \in RepoVals}
       [] OTHER -> {EmptyBag, MkBag([limit |-> JSmall(5)])}

\* the example inputs the catalog attaches to a name or to its bare alias
ExamplesOf(m) ==
  LET n == IF m \in BareNames THEN Namespaced(m) ELSE m
      ds == {i \in 1..Len(method_list) : method_list[i].name = n}
  IN UNION {{method_list[i].examples[j] :
               j \in 1..Len(method_list[i].examples)} : i \in ds}

\* what the transport may deliver with a method name
Requests(m) == Bags(m) \cup ExamplesOf(m)

DefaultClient == [x \in ClientOps |-> DefaultAnswer(x)]

\* the operation a request submits to the runtime, if any: the first unit
\* is submitted before any answer is known
Submitted(m, bag) ==
  LET probe == dispatch(m, bag, DefaultClient)
  IN IF probe.calls = <<>> THEN None ELSE Some(probe.calls[1].op)

\* the answers the client may give to the unit a request submits
AnswersFor(m, bag) ==
  IF IsSome(Submitted(m, bag))
  THEN Answers(Submitted(m, bag).some)
  ELSE {DefaultAnswer("ping")}

\* the client that gives answer a to the unit the request submits
ClientFor(m, bag, a) ==
  IF IsSome(Submitted(m, bag))
  THEN FakeClient(Submitted(m, bag).some, a)
  ELSE DefaultClient

\* the answer given to the unit submitted, under the name of its operation
AnswerTo(cs, a) == IF cs = <<>> THEN None ELSE [x \in {cs[1].op} |-> a]

(***************************************************************************)
(* The state machine.  Every thread of the transport runs one invocation   *)
(* at a time: it enters a handler, which runs up to its blocking call      *)
(* (runtime.block_on in service.rs, Command::output in main.rs) or returns *)
(* at once when it fails before; the client operation or the gh process    *)
(* it waits for completes at some time, or never; the thread then resumes  *)
(* and the handler shapes its result.                                      *)
(*                                                                         *)
(* inv is the position of each thread's invocation.  The threads of        *)
(* GitHubService share its two fields.  runtime is the Runtime: the        *)
(* futures handed to block_on and not yet returned, in the order they      *)
(* were handed in, each with the thread parked on it, the client operation *)
(* it awaits and that operation's output once it is there.  client_arc is  *)
(* the Arc of the client: its strong count, one for the service and one    *)
(* for every clone moved into a future.                                    *)
(***************************************************************************)
NoResult == [tag |-> "none"]

\* the threads of the transport
Threads == 1..MaxThreads

\* a transport that delivers one request at a time
Solo == {1}

IdleThread ==
  [pc |-> "idle", svc |-> "none", op |-> "none", method |-> "",
   params |-> EmptyBag, calls |-> <<>>, answer |-> None,
   result |-> NoResult, log |-> <<>>]

\* the thread after it entered an operation: waiting for the unit it
\* submitted, or done when the operation returned without submitting one
Entered(sv, o, m, bag, out, lg) ==
  [pc |-> IF out.calls = <<>> THEN "done" ELSE "blocked",
   svc |-> sv, op |-> o, method |-> m, params |-> bag,
   calls |-> out.calls, answer |-> None,
   result |-> IF out.calls = <<>> THEN out.result ELSE NoResult,
   log |-> lg]

\* the positions in the runtime of the futures thread t is parked on
Units(t) == {i \in DOMAIN runtime : runtime[i].owner = t}

UnitOf(t) == CHOOSE i \in Units(t) : TRUE

\* self.runtime.block_on(async move { client.<op>(..).await }): the future
\* of the handler's own call is handed to the runtime
Parked(t, out) ==
  IF out.calls = <<>> THEN runtime
  ELSE Append(runtime, [owner |-> t, call |-> out.calls[1], out |-> None])

\* let client = self.client.clone(), moved into the future
Cloned(out) ==
  IF out.calls = <<>> THEN client_arc
  ELSE [strong |-> client_arc.strong + 1]

\* the runtime once block_on has returned to t: its future is gone
Collected(t) ==
  IF Units(t) = {} THEN runtime
  ELSE SubSeq(runtime, 1, UnitOf(t) - 1)
         \o SubSeq(runtime, UnitOf(t) + 1, Len(runtime))

\* the clone of the client is dropped with the future
Dropped(t) ==
  IF Units(t) = {} THEN client_arc
  ELSE [strong |-> client_arc.strong - 1]

\* what the operation of a thread makes of the answer to its own unit
Finish(r) ==
  LET a == r.answer[r.calls[1].op]
  IN CASE r.svc = "api" /\ r.op = "dispatch" ->
            dispatch(r.method, r.params, FakeClient(r.calls[1].op, a))
       [] r.svc = "api" /\ r.op = "health_check" ->
            health_check(FakeClient("ping", a))
       [] r.svc = "api" /\ r.op = "on_start" ->
            on_start(FakeClient("ping", a))
       [] r.svc = "cli" /\ r.op = "dispatch" ->
            cli_dispatch(r.method, r.params, a)
       [] OTHER -> cli_on_start(a)

\* the tracing events of the operation once it has finished
FinishLog(r) ==
  LET a == r.answer[r.calls[1].op]
  IN CASE r.svc = "api" /\ r.op = "on_start" ->
            on_start_log(FakeClient("ping", a))
       [] r.svc = "cli" /\ r.op = "on_start" -> cli_on_start_log(a)
       [] OTHER -> r.log

Init ==
  /\ inv = [t \in Solo |-> IdleThread]
  /\ runtime = <<>>
  /\ client_arc = [strong |-> 1]

ConcInit ==
  /\ inv = [t \in Threads |-> IdleThread]
  /\ runtime = <<>>
  /\ client_arc = [strong |-> 1]

\* GitHubService::dispatch (service.rs), up to block_on
ApiDispatch(t, m, bag) ==
  /\ inv[t].pc = "idle"
  /\ LET out == dispatch(m, bag, DefaultClient)
     IN /\ inv' = [inv EXCEPT ![t] =
                     Entered("api", "dispatch", m, bag, out, <<>>)]
        /\ runtime' = Parked(t, out)
        /\ client_arc' = Cloned(out)

\* GithubService::dispatch (main.rs), up to Command::output
CliDispatch(t, m, bag) ==
  /\ inv[t].pc = "idle"
  /\ inv' = [inv EXCEPT ![t] =
               Entered("cli", "dispatch", m, bag,
                       cli_dispatch(m, bag, SpawnFailed), <<>>)]
  /\ UNCHANGED <<runtime, client_arc>>

\* GitHubService::health_check (service.rs), up to block_on
HealthCheck(t) ==
  /\ inv[t].pc = "idle"
  /\ LET out == health_check(DefaultClient)
     IN /\ inv' = [inv EXCEPT ![t] =
                     Entered("api", "health_check", "", EmptyBag, out, <<>>)]
        /\ runtime' = Parked(t, out)
        /\ client_arc' = Cloned(out)

\* GitHubService::on_start (service.rs), up to block_on: the first event
\* is logged before the ping is submitted
OnStart(t) ==
  /\ inv[t].pc = "idle"
  /\ LET out == on_start(DefaultClient)
     IN /\ inv' = [inv EXCEPT ![t] =
                     Entered("api", "on_start", "", EmptyBag, out,
                             <<"info">>)]
        /\ runtime' = Parked(t, out)
        /\ client_arc' = Cloned(out)

\* GithubService::on_start (main.rs), up to Command::output
CliOnStart(t) ==
  /\ inv[t].pc = "idle"
  /\ inv' = [inv EXCEPT ![t] =
               Entered("cli", "on_start", "", EmptyBag,
                       cli_on_start(SpawnFailed), <<>>)]
  /\ UNCHANGED <<runtime, client_arc>>

\* the operation of the client whose output t's future still waits for,
\* if any
Awaited(t) ==
  {runtime[i].call.op : i \in {j \in Units(t) : runtime[j].out = None}}

\* the answers the client may give to the unit a thread is waiting for
Awaiting(t) == UNION {Answers(o) : o \in Awaited(t)}

\* the client operation of t's future completes with the answer a; the
\* thread is still parked
Complete(t, a) ==
  /\ Awaited(t) # {}
  /\ runtime' = [runtime EXCEPT ![UnitOf(t)].out =
                   AnswerTo(<<runtime[UnitOf(t)].call>>, a)]
  /\ UNCHANGED <<inv, client_arc>>

\* the gh process t waits for ends (or could not be started) with outcome gh
GhExit(t, gh) ==
  /\ inv[t].pc = "blocked"
  /\ inv[t].svc = "cli"
  /\ inv[t].answer = None
  /\ inv' = [inv EXCEPT ![t].answer = AnswerTo(inv[t].calls, gh)]
  /\ UNCHANGED <<runtime, client_arc>>

\* the future t is parked on is complete (service.rs), or the gh process t
\* waits for has ended (main.rs)
Ready(t) ==
  /\ inv[t].pc = "blocked"
  /\ IF inv[t].svc = "api"
     THEN Units(t) # {} /\ runtime[UnitOf(t)].out # None
     ELSE inv[t].answer # None

\* the thread with what its blocking call returns: block_on returns the
\* output of the future it was given, Command::output that of its own child
Woken(t) ==
  IF inv[t].svc = "api"
  THEN [inv[t] EXCEPT !.answer = runtime[UnitOf(t)].out]
  ELSE inv[t]

\* Resume altered: the runtime is taken under a lock for the whole of
\* block_on, so that a call returns only when every future handed in
\* before its own has been returned
Resume_AfterOthers(t) ==
  /\ Ready(t)
  /\ inv[t].svc = "api" => UnitOf(t) = 1
  /\ LET r == Woken(t)
     IN inv' = [inv EXCEPT ![t] =
                  [r EXCEPT !.pc = "done",
                            !.calls = Finish(r).calls,
                            !.result = Finish(r).result,
                            !.log = FinishLog(r)]]
  /\ runtime' = Collected(t)
  /\ client_arc' = Dropped(t)

\* the blocking call returns the output of t's own unit and the handler
\* runs to its end: calls holds every unit it submitted on the way
Resume(t) ==
  /\ Ready(t)
  /\ LET r == Woken(t)
     IN inv' = [inv EXCEPT ![t] =
                  [r EXCEPT !.pc = "done",
                            !.calls = Finish(r).calls,
                            !.result = Finish(r).result,
                            !.log = FinishLog(r)]]
  /\ runtime' = Collected(t)
  /\ client_arc' = Dropped(t)

\* the response is handed to the transport; nothing is kept between calls
Return(t) ==
  /\ inv[t].pc = "done"
  /\ inv' = [inv EXCEPT ![t] = IdleThread]
  /\ UNCHANGED <<runtime, client_arc>>

\* the method names the transport may call on a thread: none while the
\* thread is inside an invocation
Offered(t) == IF inv[t].pc = "idle" THEN MethodNames ELSE {}

\* one request at a time, drawn from every request of the model
Next ==
  \/ \E m \in Offered(1) : \E bag \in Requests(m) : ApiDispatch(1, m, bag)
  \/ \E m \in Offered(1) : \E bag \in Requests(m) : CliDispatch(1, m, bag)
  \/ HealthCheck(1)
  \/ OnStart(1)
  \/ CliOnStart(1)
  \/ \E a \in Awaiting(1) : Complete(1, a)
  \/ \E gh \in GhOutcomes : GhExit(1, gh)
  \/ Resume(1)
  \/ Return(1)

Spec == Init /\ [][Next]_vars

(***************************************************************************)
(* Concurrent invocations: several threads, each given one of a few        *)
(* requests, the units answered in any order or never.                     *)
(***************************************************************************)
\* the requests the threads are given
ConcRequests ==
  {[method |-> "user", params |-> EmptyBag],
   [method |-> "github.repos", params |-> MkBag([limit |-> JSmall(5)])],
   [method |-> "pr", params |-> MkBag([repo |-> JStr(<<"a">>)])]}

\* the answers the client gives to their units
ConcAnswers(o) ==
  {Ok(DefaultAnswer(o).value), Err(ClientError("network"))}

ConcAwaiting(t) == UNION {ConcAnswers(o) : o \in Awaited(t)}

\* the ways gh ends for them
ConcGhOutcomes ==
  {Exited(FALSE, <<>>, <<"HTTP 401: ", "Bad credentials">>),
   Exited(TRUE, <<JsonLine(GhUser)>>, <<>>)}

ConcNext ==
  \E t \in Threads :
    \/ \E r \in ConcRequests : ApiDispatch(t, r.method, r.params)
    \/ CliDispatch(t, "user", EmptyBag)
    \/ HealthCheck(t)
    \/ OnStart(t)
    \/ CliOnStart(t)
    \/ \E a \in ConcAwaiting(t) : Complete(t, a)
    \/ \E gh \in ConcGhOutcomes : GhExit(t, gh)
    \/ Resume(t)
    \/ Return(t)

\* a thread whose unit is complete is scheduled again; nothing obliges the
\* client or gh to complete
ConcSpec ==
  ConcInit /\ [][ConcNext]_vars /\ \A t \in Threads : WF_vars(Resume(t))

(***************************************************************************)
(* Reading the catalog.                                                    *)
(***************************************************************************)
CatalogNames == {method_list[i].name : i \in 1..Len(method_list)}

\* the bare aliases of the catalog's names
BareAliases == {x \in BareNames : Namespaced(x) \in CatalogNames}

InCatalog(m) == m \in CatalogNames \cup BareAliases

\* the descriptor a catalog name or its bare alias refers to
Descriptor(m) ==
  LET n == IF m \in CatalogNames THEN m ELSE Namespaced(m)
  IN method_list[CHOOSE i \in 1..Len(method_list) : method_list[i].name = n]

Handled(r) == r.pc = "done" /\ r.op = "dispatch"

(***************************************************************************)
(* The Parameter Validator: validate(schema, bag) checks the required      *)
(* fields, then the type of every declared field present, then the         *)
(* constraints of each in the order enum, pattern, minimum/maximum,        *)
(* length.  Fields the schema does not declare are ignored.  Every float   *)
(* of the model is fractional.                                             *)
(***************************************************************************)
Has(node, f) == f \in DOMAIN node /\ IsSome(node[f])

\* the characters of the class [a-zA-Z0-9_.-]
PatternChars ==
  {"a", "b", "c", "d", "e", "f", "g", "h", "i", "j", "k", "l", "m", "n",
   "o", "p", "q", "r", "s", "t", "u", "v", "w", "x", "y", "z",
   "A", "B", "C", "D", "E", "F", "G", "H", "I", "J", "K", "L", "M", "N",
   "O", "P", "Q", "R", "S", "T", "U", "V", "W", "X", "Y", "Z",
   "0", "1", "2", "3", "4", "5", "6", "7", "8", "9", "_", ".", "-"}

\* s matches ^[a-zA-Z0-9_.-]+/[a-zA-Z0-9_.-]+$
Matches(pattern, s) ==
  LET parts == Split(s)
  IN /\ Len(parts) = 2
     /\ \A i \in 1..2 :
          /\ parts[i] # <<>>
          /\ \A j \in 1..Len(parts[i]) : parts[i][j] \in PatternChars

TypeOk(node, v) ==
  CASE node.type = "string" -> v.t = "string"
    [] node.type = "integer" -> v.t = "int"
    [] OTHER -> FALSE

\* the first constraint of the node that a well-typed value violates
FirstViolated(node, v) ==
  IF Has(node, "enum") /\ v.s \notin node.enum.some THEN Some("enum")
  ELSE IF Has(node, "pattern") /\ ~Matches(node.pattern.some, v.s)
  THEN Some("pattern")
  ELSE IF Has(node, "minimum")
            /\ (v.hi < 0 \/ (v.hi = 0 /\ v.lo < node.minimum.some))
  THEN Some("minimum")
  ELSE IF Has(node, "maximum")
            /\ (v.hi > 0 \/ (v.hi = 0 /\ v.lo > node.maximum.some))
  THEN Some("maximum")
  ELSE IF Has(node, "min_length") /\ Len(v.s) < node.min_length.some
  THEN Some("min_length")
  ELSE IF Has(node, "max_length") /\ Len(v.s) > node.max_length.some
  THEN Some("max_length")
  ELSE None

MissingRequiredFailure(f) == [kind |-> "MISSING_REQUIRED", field |-> f]

TypeMismatch(f) == [kind |-> "TYPE_MISMATCH", field |-> f]

ConstraintViolation(f, c) ==
  [kind |-> "CONSTRAINT_VIOLATION", field |-> f, constraint |-> c]

\* the failures of each step of the validator
MissingOf(d, bag) ==
  {MissingRequiredFailure(f) : f \in d.required \ DOMAIN bag}

MistypedOf(d, bag) ==
  {TypeMismatch(f) :
     f \in {k \in DOMAIN d.properties \cap DOMAIN bag :
              ~TypeOk(d.properties[k], bag[k])}}

ViolatedOf(d, bag) ==
  {ConstraintViolation(f, FirstViolated(d.properties[f], bag[f]).some) :
     f \in {k \in DOMAIN d.properties \cap DOMAIN bag :
              /\ TypeOk(d.properties[k], bag[k])
              /\ IsSome(FirstViolated(d.properties[k], bag[k]))}}

\* the failures validate may report: those of the first step that fails
Reportable(d, bag) ==
  IF MissingOf(d, bag) # {} THEN MissingOf(d, bag)
  ELSE IF MistypedOf(d, bag) # {} THEN MistypedOf(d, bag)
  ELSE ViolatedOf(d, bag)

Validates(d, bag) == Reportable(d, bag) = {}

ApiHandled(r) == Handled(r) /\ r.svc = "api"

CliHandled(r) == Handled(r) /\ r.svc = "cli"

(***************************************************************************)
(* What the current request submitted and what it was answered.            *)
(***************************************************************************)
Answered(r) == r.calls # <<>>

TheAnswer(r) == r.answer[r.calls[1].op]

\* the outcome of handling the current bag again, under another name or
\* with another bag, with the client answering as it did
AgainApi(r, m, bag) ==
  dispatch(m, bag,
           ClientFor(m, bag,
                     IF Answered(r) THEN TheAnswer(r)
                     ELSE DefaultAnswer("ping")))

AgainCli(r, m, bag) ==
  cli_dispatch(m, bag, IF Answered(r) THEN TheAnswer(r) ELSE SpawnFailed)

(***************************************************************************)
(* C1: for every method with required fields and every bag lacking one of  *)
(* them, dispatch returns a validation failure that names a missing field  *)
(* and invokes no client operation.                                        *)
(* Stated as claimed; the code reports a malformed repo before it looks    *)
(* for title or number.                                                    *)
(***************************************************************************)
MissingRequired(m, bag) ==
  IF InCatalog(m) THEN Descriptor(m).required \ DOMAIN bag ELSE {}

C1_MissingRequiredNamed ==
  \A t \in DOMAIN inv :
    LET r == inv[t]
    IN (ApiHandled(r) /\ MissingRequired(r.method, r.params) # {})
         => /\ r.calls = <<>>
            /\ IsErr(r.result)
            /\ \E f \in MissingRequired(r.method, r.params) :
                 r.result.err = MissingParam(f)

(***************************************************************************)
(* C2: an integer outside the declared range of its field is rejected      *)
(* without a client call; the boundary values are passed on unchanged.     *)
(* Stated as claimed; the code never compares a value with the range.      *)
(***************************************************************************)
\* the integer v lies in the range the node declares
InRange(node, v) ==
  /\ v.hi = 0
  /\ IsSome(node.minimum) => v.lo >= node.minimum.some
  /\ IsSome(node.maximum) => v.lo <= node.maximum.some

RangedFields(m) ==
  IF InCatalog(m)
  THEN {k \in DOMAIN Descriptor(m).properties :
          Descriptor(m).properties[k].type = "integer"}
  ELSE {}

OutOfRange(m, bag) ==
  {k \in RangedFields(m) \cap DOMAIN bag :
     bag[k].t = "int" /\ ~InRange(Descriptor(m).properties[k], bag[k])}

\* the fields that hold exactly the minimum or the maximum of their range
AtBoundary(m, bag) ==
  {k \in RangedFields(m) \cap DOMAIN bag :
     /\ bag[k].t = "int"
     /\ bag[k].hi = 0
     /\ \/ Some(bag[k].lo) = Descriptor(m).properties[k].minimum
        \/ Some(bag[k].lo) = Descriptor(m).properties[k].maximum}

C2_RangeEnforced ==
  \A t \in DOMAIN inv :
    LET r == inv[t]
    IN /\ (ApiHandled(r) /\ OutOfRange(r.method, r.params) # {})
            => (r.calls = <<>> /\ IsErr(r.result))
       /\ (ApiHandled(r) /\ Answered(r))
            => \A k \in AtBoundary(r.method, r.params) :
                 r.calls[1].args[k] = r.params[k].lo
       /\ (ApiHandled(r) /\ Bare(r.method) = "repos"
              /\ AtBoundary(r.method, r.params) # {})
            => Answered(r)

(***************************************************************************)
(* C3: parsing a repository identifier succeeds only for exactly two       *)
(* non-empty segments around one '/'; every other string is refused with   *)
(* the invalid-format error.                                               *)
(* Stated as claimed; the code counts the segments and accepts empty ones. *)
(***************************************************************************)
Slashes(s) == {i \in 1..Len(s) : s[i] = "/"}

WellFormedRepo(s) ==
  /\ Cardinality(Slashes(s)) = 1
  /\ \A i \in Slashes(s) : 1 < i /\ i < Len(s)

TakesRepo(m) == Bare(m) \in {"issues", "prs", "pr", "create_issue"}

RepoGiven(r) ==
  ApiHandled(r) /\ TakesRepo(r.method) /\ IsSome(get_str(r.params, "repo"))

C3_OnlyTwoNonEmptySegments ==
  \A t \in DOMAIN inv :
    LET r == inv[t]
    IN RepoGiven(r) =>
         LET s == get_str(r.params, "repo").some
         IN /\ IsOk(parse_repo(s)) <=> WellFormedRepo(s)
            /\ ~WellFormedRepo(s)
                 => (r.result = Err(InvalidRepo(s)) /\ r.calls = <<>>)

(***************************************************************************)
(* C4: a request for repos, issues or prs that leaves out limit (or state) *)
(* is handled exactly as the request with the schema's default put in:     *)
(* the same client call, with limit 10 and state "open", and the same      *)
(* response for the same client answer.                                    *)
(***************************************************************************)
HasDefault(node) == "default" \in DOMAIN node /\ IsSome(node.default)

Defaulted(m, bag) ==
  IF InCatalog(m)
  THEN {k \in DOMAIN Descriptor(m).properties \ DOMAIN bag :
          HasDefault(Descriptor(m).properties[k])}
  ELSE {}

WithDefaults(m, bag) ==
  [k \in DOMAIN bag \cup Defaulted(m, bag) |->
     IF k \in DOMAIN bag THEN bag[k]
     ELSE Descriptor(m).properties[k].default.some]

\* the typed argument a JSON default stands for
Typed(v) == IF v.t = "int" THEN v.lo ELSE v.s

C4_DefaultsEquivalent ==
  \A t \in DOMAIN inv :
    LET r == inv[t]
    IN (ApiHandled(r) /\ Defaulted(r.method, r.params) # {})
         => /\ AgainApi(r, r.method, WithDefaults(r.method, r.params))
                 = Outcome(r.calls, r.result)
            /\ Answered(r) =>
                 \A k \in Defaulted(r.method, r.params) :
                   r.calls[1].args[k]
                     = Typed(Descriptor(r.method).properties[k].default.some)

C4_Witness ==
  \E t \in DOMAIN inv :
    LET r == inv[t]
    IN /\ ApiHandled(r)
       /\ r.method = "repos"
       /\ r.params = EmptyBag
       /\ Answered(r)
       /\ r.calls[1].args.limit = 10
       /\ IsOk(r.result)

(***************************************************************************)
(* C5 as claimed: in either service, for every method X of its catalog,    *)
(* dispatching "github.X" and dispatching "X" with the same bag submit the *)
(* same client operation and return the same result.                       *)
(***************************************************************************)
CliNames == {cli_method_list[i] : i \in 1..Len(cli_method_list)}

OtherName(m) == IF m \in BareNames THEN Namespaced(m) ELSE Bare(m)

IsUnknown(r) == r.result = Err(UnknownMethod(r.method)) /\ r.calls = <<>>

C6_UnknownIffNotInCatalog ==
  \A t \in DOMAIN inv :
    LET r == inv[t]
    IN ApiHandled(r) => (IsUnknown(r) <=> ~InCatalog(r.method))

(***************************************************************************)
(* C6 as amended: dispatch fails with the unknown-method error, and calls  *)
(* no client operation, exactly when the name is neither a catalog name,   *)
(* nor the bare alias of one, nor "health", which is routed although the   *)
(* catalog does not list it.                                               *)
(***************************************************************************)
C6_UnknownIffNotRouted ==
  \A t \in DOMAIN inv :
    LET r == inv[t]
    IN ApiHandled(r)
         => (IsUnknown(r) <=> ~(InCatalog(r.method) \/ r.method = "health"))

C6_Witness ==
  \E t \in DOMAIN inv :
    LET r == inv[t]
    IN /\ ApiHandled(r)
       /\ r.method = "github.health"
       /\ IsUnknown(r)

(***************************************************************************)
(* C7 as claimed: every successful response of repos, issues, prs and      *)
(* notifications carries the client's items under the plural key and a     *)
(* field count equal to their number; issues and prs also echo the repo    *)
(* as supplied and the state, "open" when none was supplied.               *)
(***************************************************************************)
ListMethods == {"repos", "issues", "prs", "notifications"}

ListAnswered(r) ==
  ApiHandled(r) /\ IsOk(r.result) /\ Bare(r.method) \in ListMethods

\* the items under the plural key are the ones the client returned
ItemsCarried(r) ==
  /\ Bare(r.method) \in DOMAIN r.result.value
  /\ r.result.value[Bare(r.method)] = JArray(TheAnswer(r).value)

EchoesRepoAndState(r) ==
  Bare(r.method) \in {"issues", "prs"} =>
    /\ r.result.value.repo = r.params["repo"].s
    /\ "state" \notin DOMAIN r.params => r.result.value.state = Open
    /\ IsSome(get_str(r.params, "state"))
         => r.result.value.state = r.params["state"].s

HasCount(r) ==
  /\ "count" \in DOMAIN r.result.value
  /\ r.result.value.count = Len(TheAnswer(r).value)

C7_EveryListHasCount ==
  \A t \in DOMAIN inv :
    LET r == inv[t]
    IN ListAnswered(r)
         => (ItemsCarried(r) /\ HasCount(r) /\ EchoesRepoAndState(r))

(***************************************************************************)
(* C7 as amended: repos, issues and prs do so; the response of             *)
(* notifications carries the items under notifications and, instead of     *)
(* count, a field unread_count equal to the number of items whose unread   *)
(* flag is set.                                                            *)
(***************************************************************************)
Unread(ns) == {i \in 1..Len(ns) : ns[i].unread}

C7_CountOrUnreadCount ==
  \A t \in DOMAIN inv :
    LET r == inv[t]
    IN ListAnswered(r) =>
         /\ ItemsCarried(r)
         /\ EchoesRepoAndState(r)
         /\ IF Bare(r.method) = "notifications"
            THEN /\ "count" \notin DOMAIN r.result.value
                 /\ r.result.value.unread_count
                      = Cardinality(Unread(TheAnswer(r).value))
            ELSE HasCount(r)

C7_Witness ==
  \E t \in DOMAIN inv :
    LET r == inv[t]
    IN /\ ListAnswered(r)
       /\ r.method = "notifications"
       /\ Len(TheAnswer(r).value) = 2
       /\ r.result.value.unread_count = 1

(***************************************************************************)
(* C8: a failure raised by a client operation leaves dispatch re-tagged    *)
(* with the kind of the closed taxonomy that matches its cause, its        *)
(* message kept.                                                           *)
(* Stated as claimed; the code hands the client's error on as it is.       *)
(***************************************************************************)
KindOf(cause) ==
  CASE cause = "not_found" -> "NOT_FOUND"
    [] cause = "auth" -> "UNAUTHORIZED"
    [] cause = "network" -> "PROVIDER_UNAVAILABLE"
    [] OTHER -> "MALFORMED_RESPONSE"

Retagged(e) == [kind |-> KindOf(e.cause), msg |-> e.msg]

C8_ClientFailureRetagged ==
  \A t \in DOMAIN inv :
    LET r == inv[t]
    IN (ApiHandled(r) /\ Answered(r) /\ IsErr(TheAnswer(r)))
         => r.result = Err(Retagged(TheAnswer(r).err))

(***************************************************************************)
(* C9: when gh reports that there is no enclosing repository or no current *)
(* pull request, pr_status returns a success that carries an explanatory   *)
(* field and a flag telling the absence; every other failure of gh is      *)
(* returned as an error.                                                   *)
(* Stated as claimed; the code recognises the missing repository only.     *)
(***************************************************************************)
GhFailure(gh) == ~gh.spawned \/ ~gh.success

ReportsAbsence(gh) ==
  /\ gh.spawned
  /\ \/ /\ ~gh.success
        /\ \/ Contains(gh.stderr, "not a git repository")
           \/ Contains(gh.stderr, "no current pull request")
     \/ /\ gh.success
        /\ IsOk(from_slice(gh.stdout))
        /\ Index(from_slice(gh.stdout).value, "currentBranch") = JNull

TellsAbsence(res) ==
  /\ IsOk(res)
  /\ {"error", "has_pr"} \subseteq DOMAIN res.value
  /\ res.value.has_pr = FALSE

C9_AbsenceIsSuccess ==
  \A t \in DOMAIN inv :
    LET r == inv[t]
    IN (CliHandled(r) /\ r.method = "pr_status" /\ Answered(r))
         => /\ ReportsAbsence(TheAnswer(r)) => TellsAbsence(r.result)
            /\ (GhFailure(TheAnswer(r)) /\ ~ReportsAbsence(TheAnswer(r)))
                 => IsErr(r.result)

(***************************************************************************)
(* C10 as claimed: health_check issues exactly one ping per call and       *)
(* reports github_api healthy whenever the ping completes without error,   *)
(* also when it yields false; unhealthy with a reason only when the ping   *)
(* fails.                                                                  *)
(***************************************************************************)
HealthChecked(r) == r.pc = "done" /\ r.svc = "api" /\ r.op = "health_check"

OnePing(r) == Len(r.calls) = 1 /\ r.calls[1].op = "ping"

C10_HealthyWhenPingCompletes ==
  \A t \in DOMAIN inv :
    LET r == inv[t]
    IN HealthChecked(r) =>
         /\ OnePing(r)
         /\ IsOk(TheAnswer(r)) => r.result.github_api.healthy
         /\ IsErr(TheAnswer(r))
              => (~r.result.github_api.healthy
                    /\ "reason" \in DOMAIN r.result.github_api)

(***************************************************************************)
(* C10 as amended: health_check issues exactly one ping per call and       *)
(* reports github_api healthy exactly when the ping yields true; when the  *)
(* ping yields false it reports unhealthy with the reason "Empty viewer    *)
(* login", and when the ping fails, unhealthy with the error's message.    *)
(* The health method of dispatch reports the same status from its own      *)
(* single ping.                                                            *)
(***************************************************************************)
C10_HealthyOnlyWhenPingTrue ==
  \A t \in DOMAIN inv :
    LET r == inv[t]
    IN /\ HealthChecked(r) =>
            /\ OnePing(r)
            /\ TheAnswer(r) = Ok(TRUE) => r.result.github_api = Healthy
            /\ TheAnswer(r) = Ok(FALSE)
                 => r.result.github_api = Unhealthy("Empty viewer login")
            /\ IsErr(TheAnswer(r))
                 => r.result.github_api = Unhealthy(TheAnswer(r).err.msg)
       /\ (ApiHandled(r) /\ r.method = "health") =>
            /\ OnePing(r)
            /\ IsOk(TheAnswer(r)) =>
                 /\ IsOk(r.result)
                 /\ r.result.value.api_connected = TheAnswer(r).value
                 /\ r.result.value.status
                      = (IF TheAnswer(r).value THEN "healthy" ELSE "unhealthy")
            /\ IsErr(TheAnswer(r)) => r.result = Err(TheAnswer(r).err)

C10_Witness ==
  \E t \in DOMAIN inv :
    LET r == inv[t]
    IN /\ HealthChecked(r)
       /\ TheAnswer(r) = Ok(FALSE)
       /\ ~r.result.github_api.healthy

(***************************************************************************)
(* C11: on_start performs exactly one ping and returns an error, failing   *)
(* the start, if and only if the ping itself fails, the error being the    *)
(* ping's; when the ping yields false on_start returns success after       *)
(* logging a warning.                                                      *)
(***************************************************************************)
Started(r) == r.pc = "done" /\ r.svc = "api" /\ r.op = "on_start"

C11_StartFailsIffPingFails ==
  \A t \in DOMAIN inv :
    LET r == inv[t]
    IN Started(r) =>
         /\ OnePing(r)
         /\ IsErr(r.result) <=> IsErr(TheAnswer(r))
         /\ IsErr(TheAnswer(r)) => r.result = Err(TheAnswer(r).err)
         /\ TheAnswer(r) = Ok(FALSE)
              => (IsOk(r.result) /\ r.log[Len(r.log)] = "warn")
         /\ TheAnswer(r) = Ok(TRUE)
              => (IsOk(r.result) /\ \A i \in 1..Len(r.log) : r.log[i] # "warn")

C11_Witness ==
  \E t \in DOMAIN inv :
    LET r == inv[t]
    IN /\ Started(r)
       /\ TheAnswer(r) = Ok(FALSE)
       /\ IsOk(r.result)
       /\ r.log = <<"info", "warn">>

(***************************************************************************)
(* C12: in the catalog method_list returns, the names of the descriptors   *)
(* are pairwise different, every required field is a declared property,    *)
(* every default satisfies the constraints of its own node, and every      *)
(* example input passes validation against its descriptor's input schema.  *)
(***************************************************************************)
Descriptors == {method_list[i] : i \in 1..Len(method_list)}

UniqueNames ==
  \A i, j \in 1..Len(method_list) :
    method_list[i].name = method_list[j].name => i = j

RequiredDeclared ==
  \A d \in Descriptors : d.required \subseteq DOMAIN d.properties

DefaultsValid ==
  \A d \in Descriptors : \A k \in DOMAIN d.properties :
    HasDefault(d.properties[k]) =>
      /\ TypeOk(d.properties[k], d.properties[k].default.some)
      /\ FirstViolated(d.properties[k], d.properties[k].default.some) = None

ExamplesValid ==
  \A d \in Descriptors : \A j \in 1..Len(d.examples) :
    Validates(d, d.examples[j])

C12_CatalogSelfConsistent ==
  \A t \in DOMAIN inv :
    LET r == inv[t]
    IN /\ UniqueNames
       /\ RequiredDeclared
       /\ DefaultsValid
       /\ ExamplesValid
       /\ (ApiHandled(r) /\ r.params \in ExamplesOf(r.method))
            => Validates(Descriptor(r.method), r.params)

\* the example of github.create_issue has been dispatched and answered
C12_Witness ==
  \E t \in DOMAIN inv :
    LET r == inv[t]
    IN /\ ApiHandled(r)
       /\ r.method = "github.create_issue"
       /\ r.params \in ExamplesOf(r.method)
       /\ Answered(r)
       /\ IsOk(r.result)

(***************************************************************************)
(* C13: a bag whose fields are all present and well typed but of which a   *)
(* string violates a declared constraint (state outside the enum, repo not *)
(* matching the pattern, title length outside 1..256) is rejected before   *)
(* any client operation is invoked; the constraints of a field are tried   *)
(* in the order enum, pattern, min/max, length.                            *)
(* Stated as claimed; the code compares no value with its constraints.     *)
(***************************************************************************)
StringConstraints == {"enum", "pattern", "min_length", "max_length"}

StringViolations(m, bag) ==
  IF InCatalog(m)
       /\ MissingOf(Descriptor(m), bag) = {}
       /\ MistypedOf(Descriptor(m), bag) = {}
  THEN {v \in ViolatedOf(Descriptor(m), bag) :
          v.constraint \in StringConstraints}
  ELSE {}

C13_StringConstraintsEnforced ==
  \A t \in DOMAIN inv :
    LET r == inv[t]
    IN (ApiHandled(r) /\ StringViolations(r.method, r.params) # {})
         => (r.calls = <<>> /\ IsErr(r.result))

(***************************************************************************)
(* C14: when a declared field is present with a value of the wrong JSON    *)
(* type (limit a string or a fraction, state or body a number), dispatch   *)
(* fails and invokes no client operation; the value is never replaced by   *)
(* the field's default nor dropped.                                        *)
(* Stated as claimed; get_str and get_i32 read a wrongly typed value as    *)
(* an absent one.                                                          *)
(***************************************************************************)
Mistyped(m, bag) ==
  IF InCatalog(m) /\ MissingOf(Descriptor(m), bag) = {}
  THEN {v.field : v \in MistypedOf(Descriptor(m), bag)}
  ELSE {}

C14_WrongTypeRejected ==
  \A t \in DOMAIN inv :
    LET r == inv[t]
    IN (ApiHandled(r) /\ Mistyped(r.method, r.params) # {})
         => (r.calls = <<>> /\ IsErr(r.result))

(***************************************************************************)
(* C15: a dispatch of issues, prs, pr or create_issue validates the whole  *)
(* bag, then parses the repository identifier, then calls the client: a    *)
(* bag with a malformed repo and another field missing or wrongly typed    *)
(* fails with the validation failure, not with the identifier-format       *)
(* failure, and a malformed repo never leads to a client call.             *)
(* Stated as claimed; the code parses repo before it reads another field.  *)
(***************************************************************************)
MalformedRepo(r) ==
  RepoGiven(r) /\ IsErr(parse_repo(get_str(r.params, "repo").some))

\* the failures of the validator's steps before the constraints, on fields
\* other than repo
OtherFailures(m, bag) ==
  IF InCatalog(m)
  THEN {v \in MissingOf(Descriptor(m), bag)
               \cup MistypedOf(Descriptor(m), bag) : v.field # "repo"}
  ELSE {}

C15_ValidationBeforeParsing ==
  \A t \in DOMAIN inv :
    LET r == inv[t]
    IN /\ MalformedRepo(r) => (r.calls = <<>> /\ IsErr(r.result))
       /\ (MalformedRepo(r) /\ OtherFailures(r.method, r.params) # {})
            => r.result # Err(InvalidRepo(get_str(r.params, "repo").some))

(***************************************************************************)
(* C16: every dispatch submits at most one client operation to the         *)
(* runtime: exactly one when the method is resolved and neither a          *)
(* parameter check nor the parsing of the repository identifier fails,     *)
(* none when dispatch returns one of those failures; a failed operation is *)
(* not submitted again, its failure is what that dispatch returns.         *)
(***************************************************************************)
\* the failures dispatch raises itself: unknown method, missing parameter,
\* invalid repository identifier
OwnFailures(m, bag) ==
  {UnknownMethod(m)}
    \cup {MissingParam(f) : f \in {"repo", "number", "title"}}
    \cup {InvalidRepo(bag[k].s) :
            k \in {x \in DOMAIN bag : bag[x].t = "string"}}

Completed(t) == Ready(t)

Pending(t) == inv[t].pc = "blocked" /\ ~Ready(t)

Returned(t) == inv[t].pc = "done"

\* the result of a dispatch whose call was given the answer a
Shaped(call, a, res) ==
  IF IsErr(a) THEN res = Err(a.err)
  ELSE CASE call.op = "get_user" -> res = Ok(a.value)
         [] call.op = "list_repos" ->
              /\ IsOk(res)
              /\ res.value.repos = JArray(a.value)
              /\ res.value.count = Len(a.value)
         [] OTHER -> IsOk(res)

\* a step in which thread t leaves its blocking call
Leaves(t) == inv[t].pc = "blocked" /\ inv'[t].pc = "done"

\* the futures of the runtime other than those of thread t, in order
OthersOf(t, rt) == SelectSeq(rt, LAMBDA u : u.owner # t)

ReturnsOwn ==
  \A t \in DOMAIN inv :
    Leaves(t) =>
      /\ \A u \in DOMAIN inv \ {t} : inv'[u] = inv[u]
      /\ OthersOf(t, runtime') = OthersOf(t, runtime)
      /\ Units(t)' = {}
      /\ IF inv[t].svc = "api"
         THEN \E i \in Units(t) :
                /\ runtime[i].call = inv[t].calls[1]
                /\ runtime[i].out # None
                /\ inv'[t].answer = runtime[i].out
                /\ inv[t].op = "dispatch" =>
                     Shaped(runtime[i].call,
                            runtime[i].out[runtime[i].call.op],
                            inv'[t].result)
         ELSE inv[t].answer # None /\ inv'[t].answer = inv[t].answer

NotHeldUp == \A t \in DOMAIN inv : Completed(t) => ENABLED Resume(t)

IntegerFields(m, bag) ==
  {k \in RangedFields(m) \cap DOMAIN bag : bag[k].t = "int"}

\* the 64-bit integer v = hi * 2^32 + lo fits a signed 32-bit integer
FitsI32(v) == v.hi = 0

\* a non-zero multiple of 2^32
MultipleOf2To32(v) == v.t = "int" /\ v.lo = 0 /\ v.hi # 0

C18_TruncatedToLow32Bits ==
  \A t \in DOMAIN inv :
    LET r == inv[t]
    IN /\ (ApiHandled(r) /\ Answered(r)) =>
            \A k \in IntegerFields(r.method, r.params) :
              /\ r.calls[1].args[k] = r.params[k].lo
              /\ FitsI32(r.params[k])
                   <=> JSmall(r.calls[1].args[k]) = r.params[k]
       /\ (ApiHandled(r) /\ Bare(r.method) = "pr"
              /\ IsSome(get_str(r.params, "repo"))
              /\ IsOk(parse_repo(get_str(r.params, "repo").some))
              /\ "number" \in DOMAIN r.params
              /\ MultipleOf2To32(r.params["number"]))
            => (r.result = Err(MissingParam("number")) /\ r.calls = <<>>)

\* a pr request whose number is 2^32 was refused as lacking its number
C18_Witness ==
  \E t \in DOMAIN inv :
    LET r == inv[t]
    IN /\ ApiHandled(r)
       /\ r.method = "pr"
       /\ "number" \in DOMAIN r.params
       /\ r.params["number"] = JInt(1, 0)
       /\ r.result = Err(MissingParam("number"))

====
